---------------------------- MODULE Spec2Model ----------------------------
(***************************************************************************)
(* A model of lacker (src/main.rs): the application scan, the              *)
(* categorizer, the applications menu and the launcher.                    *)
(*                                                                         *)
(* Strings whose characters matter (names, exec strings) are sequences of  *)
(* code points.  A raw category list is the sequence of its pieces, each   *)
(* piece a TLA+ string: the piece ";" is the separator character and any   *)
(* other piece is a run of characters without a ';'.  An Option is a       *)
(* sequence of length at most one: <<>> is None and <<v>> is Some(v).      *)
(***************************************************************************)
EXTENDS Integers, Sequences, FiniteSets, TLC

VARIABLES
    dirs,        \* the three scanned directories: the listing read_dir yields
    readable,    \* readable[d]: read_dir(d) is Ok
    pc,          \* position of build_ui on the UI thread
    apps,        \* let apps = scan_applications()
    categories,  \* let categories = categorize_apps(&apps)
    menu,        \* the widgets of create_apps_menu, in display order
    workers      \* the threads launch_app has spawned, in spawn order

vars == <<dirs, readable, pc, apps, categories, menu, workers>>

-----------------------------------------------------------------------------
(* Bounds of the model *)

MaxFiles == 2        \* descriptor files in the filter family
MaxNameFiles == 3    \* descriptor files in the name family
MaxCatFiles == 3     \* descriptor files in the several-entries category family
MaxCatLen == 3       \* pieces of a raw category list in the one-entry family
MaxExecLen == 4      \* characters of an exec string in the launch family
MaxLaunches == 2     \* clicks on menu items

-----------------------------------------------------------------------------
(* Characters *)

Space == 32
Tab == 9
Percent == 37
UpperA == 65
UpperZ == 90
CaseOffset == 32

None == <<>>
Some(v) == <<v>>

\* char::is_whitespace, on the characters of the model
IsWhitespace(c) == c \in {Space, Tab}

\* str::to_lowercase, on ASCII
ToLowercase(s) ==
    [i \in 1..Len(s) |-> IF s[i] \in UpperA..UpperZ THEN s[i] + CaseOffset ELSE s[i]]

\* Ord for str: lexicographic on the code points; TRUE iff a <= b
RECURSIVE StrLeq(_, _)
StrLeq(a, b) ==
    IF a = <<>> THEN TRUE
    ELSE IF b = <<>> THEN FALSE
    ELSE IF a[1] < b[1] THEN TRUE
    ELSE IF a[1] > b[1] THEN FALSE
    ELSE StrLeq(Tail(a), Tail(b))

\* "Unknown"
Unknown == <<85, 110, 107, 110, 111, 119, 110>>

-----------------------------------------------------------------------------
(* scan_applications *)

\* the concatenation of a sequence of pieces
RECURSIVE Concat(_)
Concat(ps) == IF ps = <<>> THEN "" ELSE Head(ps) \o Concat(Tail(ps))

\* raw.split(';'): the runs between separators, empty runs included
RECURSIVE SplitSemi(_, _)
SplitSemi(raw, cur) ==
    IF raw = <<>> THEN <<Concat(cur)>>
    ELSE IF Head(raw) = ";" THEN <<Concat(cur)>> \o SplitSemi(Tail(raw), <<>>)
    ELSE SplitSemi(Tail(raw), Append(cur, Head(raw)))

\* de.categories().unwrap_or_default().split(';').filter(|s| !s.is_empty())
ParseCategories(cats) ==
    SelectSeq(SplitSemi(IF cats = None THEN <<>> ELSE cats[1], <<>>),
              LAMBDA s : s # "")

\* the default name of an entry without one
DefaultName == Unknown

\* de.name(None).unwrap_or(Cow::Borrowed("Unknown"))
NameOf(f) == IF f.name = None THEN DefaultName ELSE f.name[1]

\* Accepted without the no-display filter
AcceptedIgnoringNoDisplay(f) ==
    f.ok /\ f.ext = Some("desktop") /\ f.readable /\ f.decodes /\ f.exec # None

\* the filters of the scan loop, outermost first
Accepted(f) ==
    /\ f.ok                       \* entries.flatten()
    /\ f.ext = Some("desktop")    \* path.extension() == Some("desktop")
    /\ f.readable                 \* fs::read_to_string is Ok
    /\ f.decodes                  \* DesktopEntry::decode is Ok
    /\ f.exec # None              \* de.exec() is Some
    /\ ~f.no_display              \* de.no_display() is false

\* DesktopApp { name, exec, icon, categories }
DesktopApp(f) ==
    [name |-> NameOf(f), exec |-> f.exec[1], icon |-> f.icon,
     categories |-> ParseCategories(f.categories)]

\* the inner loop over one directory listing
RECURSIVE ScanEntries(_)
ScanEntries(entries) ==
    IF entries = <<>> THEN <<>>
    ELSE (IF Accepted(Head(entries)) THEN <<DesktopApp(Head(entries))>> ELSE <<>>)
         \o ScanEntries(Tail(entries))

\* ScanDir when an unreadable directory ends the scan
ScanDirAbortOnError(ds, rd, d) ==
    IF \A e \in 1..d : rd[e] THEN ScanEntries(ds[d]) ELSE <<>>

\* the outer loop over dirs
ScanDir(ds, rd, d) == IF rd[d] THEN ScanEntries(ds[d]) ELSE <<>>

\* NameLeq without to_lowercase
NameLeqCaseSensitive(a, b) == StrLeq(a.name, b.name)

\* the comparison of the sort: a.name.to_lowercase().cmp(&b.name.to_lowercase()) is not Greater
NameLeq(a, b) == StrLeq(ToLowercase(a.name), ToLowercase(b.name))

\* a stable sort step: x goes after every element that is not greater than it
RECURSIVE InsertSorted(_, _)
InsertSorted(s, x) ==
    IF s = <<>> THEN <<x>>
    ELSE IF NameLeq(Head(s), x) THEN <<Head(s)>> \o InsertSorted(Tail(s), x)
    ELSE <<x>> \o s

\* apps.sort_by(..): the stable sort of s
RECURSIVE SortByName(_)
SortByName(s) ==
    IF s = <<>> THEN <<>>
    ELSE InsertSorted(SortByName(SubSeq(s, 1, Len(s) - 1)), s[Len(s)])

scan_applications(ds, rd) ==
    SortByName(ScanDir(ds, rd, 1) \o ScanDir(ds, rd, 2) \o ScanDir(ds, rd, 3))


-----------------------------------------------------------------------------
(* categorize_apps *)

\* the match on cat.as_str(): Some(label) for a tag of the table, None for `_ => continue`
Translate(cat) ==
    CASE cat = "Utility" -> Some("Utilities")
      [] cat = "Development" -> Some("Development")
      [] cat = "Graphics" -> Some("Graphics")
      [] cat = "Network" -> Some("Internet")
      [] cat = "Office" -> Some("Office")
      [] cat = "AudioVideo" -> Some("Multimedia")
      [] cat = "System" -> Some("System")
      [] cat = "Game" -> Some("Games")
      [] cat = "Settings" -> Some("Preferences")
      [] OTHER -> None

\* FirstMatch when a tag outside the table ends the loop
FirstMatchStopsAtUnknown(cats) ==
    IF cats = <<>> THEN None ELSE Translate(Head(cats))

\* for cat in &app.categories { .. break }: the label of the first tag the match translates
RECURSIVE FirstMatch(_)
FirstMatch(cats) ==
    IF cats = <<>> THEN None
    ELSE IF Translate(Head(cats)) # None THEN Translate(Head(cats))
    ELSE FirstMatch(Tail(cats))

\* the key of the bucket an entry is pushed to
BucketKey(app) ==
    IF FirstMatch(app.categories) = None THEN "Other" ELSE FirstMatch(app.categories)[1]

\* Push that inserts at the front of the bucket
PushFront(map, key, app) ==
    IF key \in DOMAIN map THEN [map EXCEPT ![key] = <<app>> \o @]
    ELSE map @@ (key :> <<app>>)

\* categories.entry(key).or_insert_with(Vec::new).push(app.clone())
Push(map, key, app) ==
    IF key \in DOMAIN map THEN [map EXCEPT ![key] = Append(@, app)]
    ELSE map @@ (key :> <<app>>)

\* HashMap::new()
EmptyMap == [k \in {} |-> <<>>]

\* CategorizeFrom without the break: an entry goes to the bucket of each of its
\* tags that is in the table
RECURSIVE PushEveryMatch(_, _, _)
PushEveryMatch(map, cats, app) ==
    IF cats = <<>> THEN map
    ELSE PushEveryMatch(IF Translate(Head(cats)) # None
                        THEN [k \in DOMAIN map \cup {Translate(Head(cats))[1]} |->
                                 IF k = Translate(Head(cats))[1]
                                 THEN (IF k \in DOMAIN map THEN map[k] ELSE <<>>) \o <<app>>
                                 ELSE map[k]]
                        ELSE map,
                        Tail(cats), app)

RECURSIVE CategorizeEveryMatch(_, _)
CategorizeEveryMatch(as, map) ==
    IF as = <<>> THEN map
    ELSE CategorizeEveryMatch(
            Tail(as),
            IF \A i \in DOMAIN Head(as).categories : Translate(Head(as).categories[i]) = None
            THEN [k \in DOMAIN map \cup {"Other"} |->
                     IF k = "Other"
                     THEN (IF k \in DOMAIN map THEN map[k] ELSE <<>>) \o <<Head(as)>>
                     ELSE map[k]]
            ELSE PushEveryMatch(map, Head(as).categories, Head(as)))

\* the loop over apps, from the map built so far
RECURSIVE CategorizeFrom(_, _)
CategorizeFrom(as, map) ==
    IF as = <<>> THEN map
    ELSE CategorizeFrom(Tail(as), Push(map, BucketKey(Head(as)), Head(as)))

categorize_apps(as) == CategorizeFrom(as, EmptyMap)

-----------------------------------------------------------------------------
(* create_apps_menu, create_app_menu_item *)

priority_cats ==
    <<"Utilities", "Development", "Graphics", "Internet", "Office",
      "Multimedia", "System", "Games", "Preferences", "Other">>

\* the category label widget
CategoryLabel(cat_name) == [kind |-> "label", label |-> cat_name, app |-> None]

\* the button of an entry; its clicked handler owns a clone of app.exec
create_app_menu_item(app) == [kind |-> "button", label |-> "", app |-> Some(app)]

RECURSIVE MenuItems(_)
MenuItems(as) ==
    IF as = <<>> THEN <<>>
    ELSE <<create_app_menu_item(Head(as))>> \o MenuItems(Tail(as))

\* the loop over priority_cats
RECURSIVE MenuFrom(_, _)
MenuFrom(cats, map) ==
    IF cats = <<>> THEN <<>>
    ELSE (IF Head(cats) \in DOMAIN map /\ map[Head(cats)] # <<>>
          THEN <<CategoryLabel(Head(cats))>> \o MenuItems(map[Head(cats)])
          ELSE <<>>)
         \o MenuFrom(Tail(cats), map)

create_apps_menu(map) == MenuFrom(priority_cats, map)

-----------------------------------------------------------------------------
(* launch_app *)

\* exec.split_whitespace(): the maximal runs of non-whitespace characters
RECURSIVE SplitWhitespace(_, _)
SplitWhitespace(s, cur) ==
    IF s = <<>> THEN (IF cur = <<>> THEN <<>> ELSE <<cur>>)
    ELSE IF IsWhitespace(Head(s))
         THEN (IF cur = <<>> THEN <<>> ELSE <<cur>>) \o SplitWhitespace(Tail(s), <<>>)
         ELSE SplitWhitespace(Tail(s), Append(cur, Head(s)))

\* KeepToken that drops a token with a '%' anywhere in it
KeepTokenWithoutPercent(tok) == \A i \in DOMAIN tok : tok[i] # Percent

\* .filter(|s| !s.starts_with('%'))
KeepToken(tok) == ~(Len(tok) > 0 /\ tok[1] = Percent)

\* .join(" ")
RECURSIVE Join(_)
Join(toks) ==
    IF toks = <<>> THEN <<>>
    ELSE IF Len(toks) = 1 THEN toks[1]
    ELSE toks[1] \o <<Space>> \o Join(Tail(toks))

\* the command line handed to sh -c
Sanitize(exec) == Join(SelectSeq(SplitWhitespace(exec, <<>>), KeepToken))

\* std::thread::spawn(move || ..): a thread that owns the command line and has not run yet
SpawnWorker(exec) == [cmd |-> Sanitize(exec), state |-> "ready"]

\* ReturnReady when launch_app joins the worker
ReturnReadyAfterJoin(w) == w.state # "ready"

\* what launch_app waits for before it returns: nothing, the JoinHandle is dropped
ReturnReady(w) == TRUE

-----------------------------------------------------------------------------
(* The descriptor files the scan is run on *)

\* a descriptor file that passes every filter unless no_display is set
GoodFile(name, exec, nd, cats) ==
    [ok |-> TRUE, ext |-> Some("desktop"), readable |-> TRUE, decodes |-> TRUE,
     name |-> name, exec |-> exec, icon |-> None, no_display |-> nd,
     categories |-> cats]

NameA == <<97>>          \* "a"
NameB == <<66>>          \* "B"
ExecX == <<120>>         \* "x"
ExecY == <<121>>         \* "y"

\* files that differ in what the filters of the scan look at
FilterFiles ==
    LET base == GoodFile(Some(NameA), Some(ExecX), FALSE, None) IN
    {base,
     GoodFile(Some(NameA), Some(ExecX), TRUE, None),
     GoodFile(Some(NameA), Some(ExecY), FALSE, None),
     [GoodFile(Some(NameB), Some(ExecX), FALSE, Some(<<"Game">>)) EXCEPT !.icon = Some("i")],
     GoodFile(Some(NameA), None, FALSE, None),
     [base EXCEPT !.ok = FALSE],
     [base EXCEPT !.ext = None],
     [base EXCEPT !.ext = Some("txt")],
     [base EXCEPT !.readable = FALSE],
     [base EXCEPT !.decodes = FALSE]}

\* files that differ in the name: absent, empty, and names that differ in case
NameFiles ==
    {GoodFile(n, Some(ExecX), FALSE, None) :
        n \in {None, Some(<<>>), Some(<<97>>), Some(<<66>>), Some(<<98>>),
               Some(<<65, 98>>)}}

\* files that differ in the category list
CatFiles ==
    {GoodFile(Some(NameA), Some(ExecX), FALSE, c) :
        c \in {None, Some(<<"Game">>), Some(<<"Game", "s">>),
               Some(<<"Network", ";", "Game", ";">>),
               Some(<<"X-Foo", ";", ";", "Game">>)}}
    \cup {GoodFile(Some(NameB), Some(ExecY), FALSE, Some(<<"Game">>))}

\* the pieces of the raw category lists of the one-entry family
Pieces ==
    {";", "s", "X-Foo", "Utility", "Development", "Graphics", "Network", "Office",
     "AudioVideo", "System", "Game", "Settings"}

SeqsUpTo(S, n) == UNION {[1..k -> S] : k \in 0..n}

RichCatFiles ==
    {GoodFile(Some(NameA), Some(ExecX), FALSE, Some(c)) : c \in SeqsUpTo(Pieces, MaxCatLen)}

\* the characters of the exec strings of the launch family: ' ', '\t', '%', 'a'
ExecChars == {Space, Tab, Percent, 97}

\* "firefox %U --new-window"
FirefoxExec ==
    <<102, 105, 114, 101, 102, 111, 120, 32, 37, 85, 32, 45, 45, 110, 101, 119, 45, 119, 105, 110, 100, 111, 119>>

ExecFiles ==
    {GoodFile(Some(NameA), Some(e), FALSE, None) :
        e \in SeqsUpTo(ExecChars, MaxExecLen) \cup {FirefoxExec}}

\* the listing s cut into the three directories after i and after j entries
Cut(s, i, j) == <<SubSeq(s, 1, i), SubSeq(s, i + 1, j), SubSeq(s, j + 1, Len(s))>>

\* every way to put at most n files of F into the three directories
Layouts(F, n) ==
    UNION {UNION {{Cut(s, i, j) : j \in i..Len(s)} : i \in 0..Len(s)} : s \in SeqsUpTo(F, n)}

AllReadable == [d \in 1..3 |-> TRUE]

-----------------------------------------------------------------------------
(* The state machine: build_ui, then the clicks on the menu's buttons *)

InitRest ==
    /\ pc = "start"
    /\ apps = <<>>
    /\ categories = EmptyMap
    /\ menu = <<>>
    /\ workers = <<>>

Init ==
    /\ \/ /\ dirs \in Layouts(FilterFiles, MaxFiles)
          /\ readable \in [1..3 -> BOOLEAN]
       \/ /\ dirs \in Layouts(NameFiles, MaxNameFiles)
          /\ readable = AllReadable
       \/ /\ dirs \in Layouts(CatFiles, MaxCatFiles)
          /\ readable = AllReadable
       \/ /\ dirs \in {<<<<>>, <<>>, <<f>>>> : f \in RichCatFiles}
          /\ readable = AllReadable
    /\ InitRest

InitLaunch ==
    /\ dirs \in {<<<<f>>, <<>>, <<>>>> : f \in ExecFiles}
    /\ readable = AllReadable
    /\ InitRest

\* let apps = scan_applications();
ScanApplications ==
    /\ pc = "start"
    /\ apps' = scan_applications(dirs, readable)
    /\ pc' = "scanned"
    /\ UNCHANGED <<dirs, readable, categories, menu, workers>>

\* let categories = categorize_apps(&apps);
CategorizeApps ==
    /\ pc = "scanned"
    /\ categories' = categorize_apps(apps)
    /\ pc' = "categorized"
    /\ UNCHANGED <<dirs, readable, apps, menu, workers>>

\* let menu_content = create_apps_menu(&categories); .. window.present()
CreateAppsMenu ==
    /\ pc = "categorized"
    /\ menu' = create_apps_menu(categories)
    /\ pc' = "idle"
    /\ UNCHANGED <<dirs, readable, apps, categories, workers>>

\* a click on the i-th widget: launch_app(&exec) up to the return of thread::spawn
Click(i) ==
    /\ pc = "idle"
    /\ menu[i].kind = "button"
    /\ Len(workers) < MaxLaunches
    /\ workers' = Append(workers, SpawnWorker(menu[i].app[1].exec))
    /\ pc' = "launching"
    /\ UNCHANGED <<dirs, readable, apps, categories, menu>>

\* launch_app returns to the event loop
LaunchReturn ==
    /\ pc = "launching"
    /\ ReturnReady(workers[Len(workers)])
    /\ pc' = "idle"
    /\ UNCHANGED <<dirs, readable, apps, categories, menu, workers>>

\* the worker runs Command::new("sh").arg("-c").arg(&exec).spawn(): Ok(child), dropped
WorkerSpawnOk(w) ==
    /\ workers[w].state = "ready"
    /\ workers' = [workers EXCEPT ![w].state = "child_running"]
    /\ UNCHANGED <<dirs, readable, pc, apps, categories, menu>>

\* .. or Err(e), dropped by `let _ =`
WorkerSpawnErr(w) ==
    /\ workers[w].state = "ready"
    /\ workers' = [workers EXCEPT ![w].state = "spawn_failed"]
    /\ UNCHANGED <<dirs, readable, pc, apps, categories, menu>>

\* the child process ends, with status 0 or with a failure such as 127
ChildExit(w, st) ==
    /\ workers[w].state = "child_running"
    /\ workers' = [workers EXCEPT ![w].state = st]
    /\ UNCHANGED <<dirs, readable, pc, apps, categories, menu>>

BuildUi == ScanApplications \/ CategorizeApps \/ CreateAppsMenu

Ui == \E i \in 1..Len(menu) : Click(i)

Worker == \E w \in 1..Len(workers) : WorkerSpawnOk(w) \/ WorkerSpawnErr(w)

Child ==
    \E w \in 1..Len(workers), st \in {"child_succeeded", "child_failed"} : ChildExit(w, st)

Next == BuildUi

NextLaunch == BuildUi \/ Ui \/ LaunchReturn \/ Worker \/ Child

Spec == Init /\ [][Next]_vars

LaunchSpec == InitLaunch /\ [][NextLaunch]_vars

-----------------------------------------------------------------------------
(* Vocabulary of the properties *)

Range(s) == {s[i] : i \in DOMAIN s}

\* how many times x occurs in s
Occurrences(s, x) == Cardinality({i \in DOMAIN s : s[i] = x})

Scanned == pc # "start"

Categorized == pc \notin {"start", "scanned"}

\* the positions of the descriptor files: <<directory, index in its listing>>
FilePositions == UNION {{<<d, i>> : i \in DOMAIN dirs[d]} : d \in 1..3}

FileAt(p) == dirs[p[1]][p[2]]

\* a file the scan is to list: in a readable directory, with the descriptor
\* extension, readable, decoded, with a launch command and not no-display
Listed(p) ==
    /\ readable[p[1]]
    /\ FileAt(p).ok
    /\ FileAt(p).ext = <<"desktop">>
    /\ FileAt(p).readable
    /\ FileAt(p).decodes
    /\ Len(FileAt(p).exec) = 1
    /\ FileAt(p).no_display = FALSE

RECURSIVE SumOfLengths(_, _)
SumOfLengths(map, keys) ==
    IF keys = {} THEN 0
    ELSE LET k == CHOOSE x \in keys : TRUE
         IN Len(map[k]) + SumOfLengths(map, keys \ {k})

RECURSIVE SumOfOccurrences(_, _, _)
SumOfOccurrences(map, keys, x) ==
    IF keys = {} THEN 0
    ELSE LET k == CHOOSE y \in keys : TRUE
         IN Occurrences(map[k], x) + SumOfOccurrences(map, keys \ {k}, x)

-----------------------------------------------------------------------------
(* C1 *)

\* C1: once categorize_apps has run, the buckets partition the catalog: the
\* bucket lengths sum to the catalog length, every entry occurs in the buckets
\* as often as in the catalog, and no entry is in two buckets.
C1_Partition ==
    Categorized =>
        /\ SumOfLengths(categories, DOMAIN categories) = Len(apps)
        /\ \A a \in Range(apps) :
              SumOfOccurrences(categories, DOMAIN categories, a) = Occurrences(apps, a)
        /\ \A k1, k2 \in DOMAIN categories :
              k1 # k2 => Range(categories[k1]) \cap Range(categories[k2]) = {}

\* a catalog with a repeated entry and entries of two different buckets
C1_Witness ==
    /\ pc = "categorized"
    /\ Len(apps) = 3
    /\ apps[1] = apps[2]
    /\ Cardinality(DOMAIN categories) = 2
    /\ "Other" \in DOMAIN categories

-----------------------------------------------------------------------------
(* C2 *)

TagTable ==
    [t \in {"Utility", "Development", "Graphics", "Network", "Office",
            "AudioVideo", "System", "Game", "Settings"} |->
        CASE t = "Utility" -> "Utilities"
          [] t = "Network" -> "Internet"
          [] t = "AudioVideo" -> "Multimedia"
          [] t = "Game" -> "Games"
          [] t = "Settings" -> "Preferences"
          [] OTHER -> t]

Labels == {TagTable[t] : t \in DOMAIN TagTable} \cup {"Other"}

\* C2: every entry of bucket k has k as the translation of its first tag that
\* is in the table, tags outside the table being skipped, or has no tag in the
\* table and k is "Other"; the keys are among the nine labels and "Other".
C2_FirstTableTag ==
    Categorized =>
        /\ DOMAIN categories \subseteq Labels
        /\ \A k \in DOMAIN categories : \A a \in Range(categories[k]) :
              \/ \E i \in DOMAIN a.categories :
                    /\ a.categories[i] \in DOMAIN TagTable
                    /\ TagTable[a.categories[i]] = k
                    /\ \A j \in 1..(i - 1) : a.categories[j] \notin DOMAIN TagTable
              \/ /\ \A i \in DOMAIN a.categories : a.categories[i] \notin DOMAIN TagTable
                 /\ k = "Other"

\* an entry whose first tag is outside the table and whose second is in it,
\* next to an entry with two tags of the table and one with none
C2_Witness ==
    /\ pc = "categorized"
    /\ "Other" \in DOMAIN categories
    /\ "Games" \in DOMAIN categories
    /\ "Internet" \in DOMAIN categories
    /\ \E a \in Range(categories["Games"]) : a.categories = <<"X-Foo", "Game">>
    /\ \E a \in Range(categories["Internet"]) : a.categories = <<"Network", "Game">>

-----------------------------------------------------------------------------
(* C3 *)

Lower(c) == IF c >= 65 /\ c <= 90 THEN c + 32 ELSE c

\* a <= b in the lexicographic order of the lowercased characters
LowerLexLeq(a, b) ==
    \/ /\ Len(a) <= Len(b)
       /\ \A i \in 1..Len(a) : Lower(a[i]) = Lower(b[i])
    \/ \E i \in 1..Len(a) :
          /\ i <= Len(b)
          /\ Lower(a[i]) < Lower(b[i])
          /\ \A j \in 1..(i - 1) : Lower(a[j]) = Lower(b[j])

\* C3: the catalog scan_applications returns is in case-insensitive
\* non-decreasing order of name.
C3_SortedByName ==
    Scanned => \A i \in 1..(Len(apps) - 1) : LowerLexLeq(apps[i].name, apps[i + 1].name)

\* three entries read in the order "B", "a", "Ab": the byte order is not the
\* case-insensitive one
C3_Witness ==
    /\ pc = "scanned"
    /\ dirs[1] \o dirs[2] \o dirs[3] =
          <<GoodFile(Some(<<66>>), Some(ExecX), FALSE, None),
            GoodFile(Some(<<97>>), Some(ExecX), FALSE, None),
            GoodFile(Some(<<65, 98>>), Some(ExecX), FALSE, None)>>
    /\ Len(apps) = 3
    /\ apps[1].name = <<97>>
    /\ apps[3].name = <<66>>

-----------------------------------------------------------------------------
(* C4 *)

\* a descriptor with the no-display flag set, and a launch command
Hidden(p) == FileAt(p).decodes /\ FileAt(p).no_display /\ Len(FileAt(p).exec) = 1

\* C4 as first stated: no entry of the catalog has the exec string of a
\* descriptor with the no-display flag set, whatever other files there are.
C4_NoEntryWithHiddenExec ==
    Scanned =>
        \A p \in FilePositions :
            Hidden(p) => \A k \in DOMAIN apps : apps[k].exec # FileAt(p).exec[1]

\* C4, amended: a descriptor with the no-display flag set adds no entry: the
\* entries with its exec string are one for each listed file with that exec
\* string, so there is none unless a displayable file declares the same one.
C4_HiddenAddsNoEntry ==
    Scanned =>
        \A p \in FilePositions :
            Hidden(p) =>
                Cardinality({k \in DOMAIN apps : apps[k].exec = FileAt(p).exec[1]})
                = Cardinality({q \in FilePositions :
                                  Listed(q) /\ FileAt(q).exec = FileAt(p).exec})

\* a hidden descriptor and a displayable one with the same exec string: the
\* catalog holds the displayable one only
C4_Witness ==
    /\ pc = "scanned"
    /\ Len(apps) = 1
    /\ \E p, q \in FilePositions :
          /\ Hidden(p)
          /\ readable[p[1]]
          /\ Accepted([FileAt(p) EXCEPT !.no_display = FALSE])
          /\ Listed(q)
          /\ FileAt(q).exec = FileAt(p).exec

-----------------------------------------------------------------------------
(* C5 *)

\* C5: the catalog holds one entry for each listed file and nothing else:
\* every entry occurs as often as there are listed files that yield it.
C5_OneEntryPerListedFile ==
    Scanned =>
        /\ Len(apps) = Cardinality({p \in FilePositions : Listed(p)})
        /\ \A p \in FilePositions :
              Listed(p) =>
                 Occurrences(apps, DesktopApp(FileAt(p)))
                 = Cardinality({q \in FilePositions :
                                   Listed(q) /\ DesktopApp(FileAt(q)) = DesktopApp(FileAt(p))})

\* the first directory is unreadable and the other two hold the same accepted
\* descriptor: both copies are in the catalog
C5_Witness ==
    /\ pc = "scanned"
    /\ ~readable[1]
    /\ Len(dirs[1]) = 0
    /\ Len(dirs[2]) = 1
    /\ Len(dirs[3]) = 1
    /\ dirs[2] = dirs[3]
    /\ Len(apps) = 2
    /\ apps[1] = apps[2]

-----------------------------------------------------------------------------
(* C8 *)

\* C8: every bucket lists its entries in catalog order: the bucket is the
\* catalog with the entries of the other buckets left out.
C8_BucketsKeepCatalogOrder ==
    Categorized =>
        \A k \in DOMAIN categories :
            categories[k] = SelectSeq(apps, LAMBDA a : a \in Range(categories[k]))

\* a bucket of two different entries, with an entry of another bucket between
\* them in the catalog
C8_Witness ==
    /\ pc = "categorized"
    /\ Len(apps) = 3
    /\ \E k \in DOMAIN categories :
          /\ Len(categories[k]) = 2
          /\ categories[k][1] = apps[1]
          /\ categories[k][2] = apps[3]
          /\ apps[1] # apps[3]

-----------------------------------------------------------------------------
(* C9 *)

\* C9: every entry of the catalog has a non-empty name.
C9_NameNeverEmpty ==
    Scanned => \A k \in DOMAIN apps : apps[k].name # <<>>

-----------------------------------------------------------------------------
(* C6 *)

IsBlank(c) == c = 32 \/ c = 9

\* the positions where a token of s starts, and where the token that starts at i ends
TokenStarts(s) == {i \in DOMAIN s : ~IsBlank(s[i]) /\ (i = 1 \/ IsBlank(s[i - 1]))}

TokenEnd(s, i) ==
    CHOOSE j \in i..Len(s) :
        /\ \A k \in i..j : ~IsBlank(s[k])
        /\ (j = Len(s) \/ IsBlank(s[j + 1]))

\* the starts of the tokens that do not begin with '%'
KeptStarts(s) == {i \in TokenStarts(s) : s[i] # 37}

\* the room the tokens that start at the positions in K take, a space after each
RECURSIVE Room(_, _)
Room(s, K) ==
    IF K = {} THEN 0
    ELSE LET i == CHOOSE x \in K : TRUE
         IN (TokenEnd(s, i) - i + 2) + Room(s, K \ {i})

\* r is the kept tokens of s, in order, with one space between neighbours
IsSanitized(s, r) ==
    /\ Len(r) = IF KeptStarts(s) = {} THEN 0 ELSE Room(s, KeptStarts(s)) - 1
    /\ \A i \in KeptStarts(s) :
          LET before == Room(s, {k \in KeptStarts(s) : k < i})
          IN /\ \A t \in 0..(TokenEnd(s, i) - i) : r[before + t + 1] = s[i + t]
             /\ before > 0 => r[before] = 32

\* r has blanks only as single spaces between tokens, and no token of r begins with '%'
IsTidy(r) ==
    /\ \A i \in DOMAIN r : r[i] # 9
    /\ r # <<>> => r[1] # 32 /\ r[Len(r)] # 32
    /\ \A i \in 1..(Len(r) - 1) : ~(r[i] = 32 /\ r[i + 1] = 32)
    /\ \A i \in DOMAIN r : (i = 1 \/ r[i - 1] = 32) => r[i] # 37

\* C6: the command line of every worker is the exec string of a menu button
\* with the tokens that begin with '%' left out and the others joined by
\* single spaces; for "firefox %U --new-window" it is "firefox --new-window".
C6_SanitizedCommand ==
    \A w \in DOMAIN workers :
        /\ IsTidy(workers[w].cmd)
        /\ \E i \in DOMAIN menu :
              /\ menu[i].kind = "button"
              /\ IsSanitized(menu[i].app[1].exec, workers[w].cmd)
              /\ menu[i].app[1].exec = FirefoxExec
                    => workers[w].cmd = <<102, 105, 114, 101, 102, 111, 120, 32, 45, 45, 110, 101, 119, 45, 119, 105, 110, 100, 111, 119>>

\* a launch of "firefox %U --new-window"
C6_Witness ==
    /\ Len(workers) = 1
    /\ \E i \in DOMAIN menu :
          menu[i].kind = "button" /\ menu[i].app[1].exec = FirefoxExec
    /\ workers[1].cmd = <<102, 105, 114, 101, 102, 111, 120, 32, 45, 45, 110, 101, 119, 45, 119, 105, 110, 100, 111, 119>>

\* a launch of "a% %": the token "a%" is kept and the token "%" is dropped
C6_WitnessPercentInside ==
    /\ Len(workers) = 1
    /\ \E i \in DOMAIN menu :
          menu[i].kind = "button" /\ menu[i].app[1].exec = <<97, 37, 32, 37>>
    /\ workers[1].cmd = <<97, 37>>

-----------------------------------------------------------------------------
(* C7 *)

\* what the UI thread holds
uiVars == <<apps, categories, menu>>

\* C7: launch_app can return whatever the worker and the child have done; a
\* step of a worker or of a child changes nothing of the UI thread; and the
\* call leaves the UI thread idle with its state as before the click.
C7_FireAndForget ==
    /\ [](pc = "launching" => ENABLED LaunchReturn)
    /\ [][(Worker \/ Child) => UNCHANGED <<pc, uiVars>>]_vars
    /\ [][(pc = "launching" /\ pc' # "launching") => (pc' = "idle" /\ UNCHANGED uiVars)]_vars
    /\ [][(pc = "idle" /\ pc' # "idle") =>
             /\ pc' = "launching"
             /\ UNCHANGED uiVars
             /\ Len(workers') = Len(workers) + 1
             /\ workers'[Len(workers')].state = "ready"]_vars

\* launch_app has returned twice: the first worker failed to start its
\* process and the second has not run yet
C7_Witness ==
    /\ pc = "idle"
    /\ Len(workers) = 2
    /\ workers[1].state = "spawn_failed"
    /\ workers[2].state = "ready"

=============================================================================
